---- MODULE Spec2Model ----
(***************************************************************************)
(* Model of source/blender/usd/intern/usd_writer_mesh.cc: the USD mesh     *)
(* writer.  One export session of one object is modelled: the writer's     *)
(* do_write / write_mesh / get_geometry_data / assign_materials, the       *)
(* sequence of calls they make on the USD stage, and the per-writer        *)
(* frame_has_been_written_ flag.                                           *)
(***************************************************************************)
EXTENDS Integers, Sequences, FiniteSets, TLC

VARIABLES
  object,                   \* context.object: totcol and its material slots
  mesh_eval,                \* object_eval->runtime.mesh_eval, the source mesh
  temporary,                \* whether this writer's get_export_mesh hands out an owned copy
  frame_has_been_written_,  \* USDAbstractWriter::frame_has_been_written_
  calls,                    \* number of export calls made so far in the session
  mesh,                     \* the snapshot the last call acquired (NULL when none)
  usd_mesh_data,            \* the USDMeshData the last extraction filled
  events,                   \* what the last call did, in order
  outcome,                  \* how the last call ended
  stage,                    \* the USD stage (output document)
  last,                     \* the last call: the flag it found, whether it ran assign_materials
  assign_started,           \* number of assign_materials runs begun in the session
  assign_completed,         \* number of assign_materials runs that returned
  double_sided_writes       \* number of CreateDoubleSidedAttr calls in the session

vars == <<object, mesh_eval, temporary, frame_has_been_written_, calls, mesh,
          usd_mesh_data, events, outcome, stage, last, assign_started,
          assign_completed, double_sided_writes>>

-----------------------------------------------------------------------------
(* Bounds of the model. *)

MaxVert == 4      \* vertices of a source mesh
MaxPoly == 2      \* polygons of a source mesh
MaxEdge == 2      \* edges of a source mesh
MaxCol == 3       \* material slots of an object / mesh
MaxCalls == 2     \* export calls (time samples) in one session
MaxSessionCol == 2 \* material slots of the objects whose whole session is explored

(* Program constants. *)

CREASE_SHARP == 255   \* the 8-bit crease weight that means "perfectly sharp"
CREASE_SCALE == 255   \* factor = 1.0f / 255.0f
CREASE_RUN == 2       \* vertices per crease run

(* Edge crease weights tried: none, the smallest, the largest finite, sharp. *)
CreaseValues == {0, 1, CREASE_SHARP - 1, CREASE_SHARP}

-----------------------------------------------------------------------------
(* Values. *)

NULL == [null |-> TRUE]

(* A Material*; nullptr is the empty slot.  cull_backface stands for        *)
(* (blend_flag & MA_BL_CULL_BACKFACE) != 0.                                 *)
nullptr == [id |-> 0, cull_backface |-> FALSE]
Materials == {[id |-> 1, cull_backface |-> TRUE], [id |-> 2, cull_backface |-> FALSE]}

(* Sharpness values are the rationals num/den. *)
SHARPNESS_INFINITE == [num |-> 10, den |-> 1]

SeqsUpTo(S, n) == UNION {[1..k -> S] : k \in 0..n}

RECURSIVE SumSeq(_)
SumSeq(s) == IF s = <<>> THEN 0 ELSE s[1] + SumSeq(Tail(s))

Max(a, b) == IF a >= b THEN a ELSE b

(* The source mesh built from polygon descriptions (loop count, material    *)
(* slot) and edge crease weights: loops are laid out contiguously, polygon  *)
(* after polygon, as Blender stores them.                                   *)
LoopStart(polys, i) == SumSeq([k \in 1..(i - 1) |-> polys[k].totloop])

MakeMesh(nv, polys, creases, totcol) ==
  LET nl == SumSeq([k \in 1..Len(polys) |-> polys[k].totloop])
  IN [totvert |-> nv,
      mvert   |-> [i \in 1..nv |-> [co |-> 10 * i]],
      totpoly |-> Len(polys),
      mpoly   |-> [i \in 1..Len(polys) |->
                     [loopstart |-> LoopStart(polys, i),
                      totloop   |-> polys[i].totloop,
                      mat_nr    |-> polys[i].mat_nr]],
      totloop |-> nl,
      mloop   |-> [l \in 1..nl |-> [v |-> (l - 1) % nv]],
      totedge |-> Len(creases),
      medge   |-> [e \in 1..Len(creases) |->
                     [v1 |-> (e - 1) % nv, v2 |-> e % nv, crease |-> creases[e]]],
      totcol  |-> totcol]

(* Polygons need three vertices, edges two. *)
PolyChoices(nv, totcol) ==
  IF nv < 3 THEN {}
  ELSE [totloop : 3..nv, mat_nr : 0..(Max(totcol, 1) - 1)]

EdgeChoices(nv) == IF nv < 2 THEN {} ELSE CreaseValues

(* m is a source mesh of nv vertices and totcol slots with at most maxpoly   *)
(* polygons and maxedge edges.                                              *)
IsMeshOf(m, nv, totcol, maxpoly, maxedge) ==
  \E polys \in SeqsUpTo(PolyChoices(nv, totcol), maxpoly) :
    \E creases \in SeqsUpTo(EdgeChoices(nv), maxedge) :
      m = MakeMesh(nv, polys, creases, totcol)

-----------------------------------------------------------------------------
(* struct USDMeshData, default-constructed. *)
USDMeshData ==
  [points                |-> <<>>,
   face_vertex_counts    |-> <<>>,
   face_indices          |-> <<>>,
   face_groups           |-> <<>>,
   crease_lengths        |-> <<>>,
   crease_vertex_indices |-> <<>>,
   crease_sharpnesses    |-> <<>>]

(* std::map<short, VtIntArray>: face_groups[key].push_back(x). *)
MapPushBack(map, key, x) ==
  IF key \in DOMAIN map
  THEN [map EXCEPT ![key] = Append(@, x)]
  ELSE (key :> <<x>>) @@ map

get_vertices(m, data) ==
  [data EXCEPT !.points = @ \o [i \in 1..m.totvert |-> m.mvert[i].co]]

(* The vertex indices of one polygon's loops, in loop order. *)
poly_loops_OffByOne(m, mpoly) ==
  [j \in 1..(mpoly.totloop - 1) |-> m.mloop[mpoly.loopstart + j].v]

poly_loops(m, mpoly) ==
  [j \in 1..mpoly.totloop |-> m.mloop[mpoly.loopstart + j].v]

RECURSIVE polys_loop(_, _, _, _)
polys_loop(m, construct_face_groups, i, data) ==
  IF ~(i < m.totpoly) THEN data
  ELSE LET mpoly == m.mpoly[i + 1]
           loops == poly_loops(m, mpoly)
           d1 == [data EXCEPT !.face_vertex_counts = Append(@, mpoly.totloop),
                              !.face_indices = @ \o loops]
           d2 == IF construct_face_groups
                 THEN [d1 EXCEPT !.face_groups = MapPushBack(@, mpoly.mat_nr, i)]
                 ELSE d1
       IN polys_loop(m, construct_face_groups, i + 1, d2)

get_loops_polys_NoSlotTest(m, data) == polys_loop(m, TRUE, 0, data)

get_loops_polys(m, data) ==
  LET construct_face_groups == m.totcol > 1
  IN polys_loop(m, construct_face_groups, 0, data)

(* The sharpness of one creased edge. *)
edge_sharpness_NoSentinel(crease) == [num |-> crease, den |-> CREASE_SCALE]

edge_sharpness(crease) ==
  IF crease = CREASE_SHARP
  THEN SHARPNESS_INFINITE
  ELSE [num |-> crease, den |-> CREASE_SCALE]

RECURSIVE creases_loop(_, _, _)
creases_loop(m, edge_idx, data) ==
  IF ~(edge_idx < m.totedge) THEN data
  ELSE LET edge == m.medge[edge_idx + 1]
       IN IF edge.crease = 0
          THEN creases_loop(m, edge_idx + 1, data)
          ELSE creases_loop(m, edge_idx + 1,
                 [data EXCEPT
                    !.crease_vertex_indices = Append(Append(@, edge.v1), edge.v2),
                    !.crease_lengths = Append(@, CREASE_RUN),
                    !.crease_sharpnesses = Append(@, edge_sharpness(edge.crease))])

get_creases(m, data) == creases_loop(m, 0, data)

get_geometry_data(m, data) ==
  get_creases(m, get_loops_polys(m, get_vertices(m, data)))

-----------------------------------------------------------------------------
(* The USD stage as far as this writer touches it. *)

NoCall == [found_written |-> FALSE, assign_started |-> FALSE, assign_completed |-> FALSE]

NoStage ==
  [defined |-> FALSE, samples |-> {}, materials |-> {}, binding |-> nullptr,
   double_sided |-> "unset", subsets |-> {}]

(* The calls a write makes, as events. *)
EvDefine == [op |-> "Define"]
EvRead(part) == [op |-> "ReadMesh", part |-> part]
EvSet(attr, value, timecode) == [op |-> "Set", attr |-> attr, value |-> value, time |-> timecode]
EvEnsure(material) == [op |-> "EnsureMaterial", material |-> material]
EvBindMesh(material) == [op |-> "BindMesh", material |-> material]
EvDoubleSided(value) == [op |-> "DoubleSided", value |-> value]
EvSubset(name, face_indices) == [op |-> "CreateSubset", name |-> name, indices |-> face_indices]
EvBindSubset(name, material) == [op |-> "BindSubset", name |-> name, material |-> material]
EvFree == [op |-> "Free"]

Ops(evs, op) == SelectSeq(evs, LAMBDA e : e.op = op)

(* The effect of one call on the stage.  A sample set at a time code         *)
(* replaces the sample of that attribute at that time code; a subset         *)
(* created under an existing name updates that subset.                       *)
ApplyEvent(st, e) ==
  CASE e.op = "Define" -> [st EXCEPT !.defined = TRUE]
    [] e.op = "Set" ->
         [st EXCEPT !.samples =
            {s \in @ : ~(s.attr = e.attr /\ s.time = e.time)}
              \cup {[attr |-> e.attr, time |-> e.time, value |-> e.value]}]
    [] e.op = "EnsureMaterial" -> [st EXCEPT !.materials = @ \cup {e.material.id}]
    [] e.op = "BindMesh" -> [st EXCEPT !.binding = e.material]
    [] e.op = "DoubleSided" ->
         [st EXCEPT !.double_sided = IF e.value THEN "true" ELSE "false"]
    [] e.op = "CreateSubset" ->
         [st EXCEPT !.subsets =
            {s \in @ : s.name # e.name}
              \cup {[name |-> e.name, indices |-> e.indices,
                     binding |-> IF \E s \in @ : s.name = e.name
                                 THEN (CHOOSE s \in @ : s.name = e.name).binding
                                 ELSE nullptr]}]
    [] e.op = "BindSubset" ->
         [st EXCEPT !.subsets =
            {IF s.name = e.name THEN [s EXCEPT !.binding = e.material] ELSE s : s \in @}]
    [] OTHER -> st

RECURSIVE ApplyEvents(_, _)
ApplyEvents(st, evs) ==
  IF evs = <<>> THEN st ELSE ApplyEvents(ApplyEvent(st, Head(evs)), Tail(evs))

-----------------------------------------------------------------------------
(* Material assignment. *)

(* give_current_material(ob, act): the material of slot act (1-based). *)
give_current_material(ob, act) ==
  IF act \in 1..ob.totcol THEN ob.mat[act] ELSE nullptr

(* The slot scan of assign_materials: the first non-empty slot, or totcol    *)
(* when every slot is empty.                                                 *)
RECURSIVE first_material_slot(_, _)
first_material_slot(ob, mat_num) ==
  IF ~(mat_num < ob.totcol) THEN mat_num
  ELSE IF give_current_material(ob, mat_num + 1) = nullptr
       THEN first_material_slot(ob, mat_num + 1)
       ELSE mat_num

double_sided_of_Flipped(material) == material.cull_backface

double_sided_of(material) == ~material.cull_backface

(* One iteration of the geometry-subset loop. *)
subset_for_NoSkip(ob, material_number, face_indices) ==
  LET material == give_current_material(ob, material_number + 1)
  IN <<EvEnsure(material), EvSubset(material.id, face_indices),
       EvBindSubset(material.id, material)>>

subset_for(ob, material_number, face_indices) ==
  LET material == give_current_material(ob, material_number + 1)
  IN IF material = nullptr THEN <<>>
     ELSE <<EvEnsure(material), EvSubset(material.id, face_indices),
            EvBindSubset(material.id, material)>>

(* The loop over the std::map, in ascending key order. *)
RECURSIVE subsets_loop(_, _, _)
subsets_loop(ob, usd_face_groups, keys) ==
  IF keys = {} THEN <<>>
  ELSE LET material_number == CHOOSE k \in keys : \A o \in keys : k <= o
       IN subset_for(ob, material_number, usd_face_groups[material_number])
            \o subsets_loop(ob, usd_face_groups, keys \ {material_number})

(* Whether assign_materials stops before the subset loop. *)
no_subsets_needed_BoundOnly(mesh_material_bound, usd_face_groups) ==
  ~mesh_material_bound

no_subsets_needed(mesh_material_bound, usd_face_groups) ==
  ~mesh_material_bound \/ Cardinality(DOMAIN usd_face_groups) < 2

(* The events of assign_materials when the object has material slots. *)
assign_slots(ob, usd_face_groups) ==
  LET mat_num == first_material_slot(ob, 0)
      mesh_material_bound == mat_num < ob.totcol
      material == give_current_material(ob, mat_num + 1)
      bound == IF mesh_material_bound
               THEN <<EvEnsure(material), EvBindMesh(material),
                      EvDoubleSided(double_sided_of(material))>>
               ELSE <<EvDoubleSided(TRUE)>>
  IN IF no_subsets_needed(mesh_material_bound, usd_face_groups)
     THEN bound
     ELSE bound \o subsets_loop(ob, usd_face_groups, DOMAIN usd_face_groups)

assign_materials_NoSlotCheck(ob, usd_face_groups) == assign_slots(ob, usd_face_groups)

assign_materials(ob, usd_face_groups) ==
  IF ob.totcol = 0 THEN <<>> ELSE assign_slots(ob, usd_face_groups)

-----------------------------------------------------------------------------
(* write_mesh: the events up to the frame_has_been_written_ test (pre) and   *)
(* those of assign_materials (assign), with whether assign_materials is      *)
(* called at all.                                                            *)
geometry_events(m, timecode) ==
  LET data == get_geometry_data(m, USDMeshData)
  IN <<EvDefine, EvRead("vertices"), EvRead("loops_polys"), EvRead("creases"),
       EvSet("points", data.points, timecode),
       EvSet("faceVertexCounts", data.face_vertex_counts, timecode),
       EvSet("faceVertexIndices", data.face_indices, timecode)>>
     \o (IF data.crease_lengths # <<>>
         THEN <<EvSet("creaseLengths", data.crease_lengths, timecode),
                EvSet("creaseIndices", data.crease_vertex_indices, timecode),
                EvSet("creaseSharpnesses", data.crease_sharpnesses, timecode)>>
         ELSE <<>>)

write_mesh_AlwaysAssign(ob, m, written, timecode) ==
  [pre |-> geometry_events(m, timecode),
   assigns |-> TRUE,
   assign |-> assign_materials(ob, get_geometry_data(m, USDMeshData).face_groups)]

write_mesh(ob, m, written, timecode) ==
  [pre |-> geometry_events(m, timecode),
   assigns |-> ~written,
   assign |-> IF written THEN <<>>
              ELSE assign_materials(ob, get_geometry_data(m, USDMeshData).face_groups)]

(* The number of calls write_mesh makes that may raise. *)
FaultPoints(ob, m, written, timecode) ==
  IF m = NULL THEN {0}
  ELSE LET w == write_mesh(ob, m, written, timecode)
       IN 0..(Len(w.pre) + Len(w.assign))

(* do_write: fault is the number of calls of write_mesh that succeed before  *)
(* one raises; when it is the number of calls write_mesh makes, none raises. *)
do_write_body(ob, m, needsfree, written, timecode, fault, free_on_return, free_on_raise) ==
  LET w == write_mesh(ob, m, written, timecode)
      body == w.pre \o w.assign
      raised == fault < Len(body)
      done == IF raised THEN SubSeq(body, 1, fault) ELSE body
      started == w.assigns /\ fault >= Len(w.pre)
  IN IF raised
     THEN [events |-> done \o (IF needsfree /\ free_on_raise THEN <<EvFree>> ELSE <<>>),
           outcome |-> "threw",
           assign_started |-> started, assign_completed |-> FALSE]
     ELSE [events |-> done \o (IF needsfree /\ free_on_return THEN <<EvFree>> ELSE <<>>),
           outcome |-> "returned",
           assign_started |-> started, assign_completed |-> started]

Skipped(evs) ==
  [events |-> evs, outcome |-> "skipped",
   assign_started |-> FALSE, assign_completed |-> FALSE]

do_write_LeakOnRaise(ob, m, needsfree, written, timecode, fault) ==
  IF m = NULL THEN Skipped(<<>>)
  ELSE do_write_body(ob, m, needsfree, written, timecode, fault, TRUE, FALSE)

do_write_DefineFirst(ob, m, needsfree, written, timecode, fault) ==
  IF m = NULL THEN Skipped(<<EvDefine>>)
  ELSE do_write_body(ob, m, needsfree, written, timecode, fault, TRUE, TRUE)

do_write(ob, m, needsfree, written, timecode, fault) ==
  IF m = NULL THEN Skipped(<<>>)
  ELSE do_write_body(ob, m, needsfree, written, timecode, fault, TRUE, TRUE)

-----------------------------------------------------------------------------
(* One export call: USDAbstractWriter::write around do_write. *)

written_after(written, result) == written \/ result.outcome = "returned"

Write(m, fault) ==
  /\ calls < MaxCalls
  /\ \E result \in {do_write(object, m, temporary, frame_has_been_written_,
                                calls + 1, fault)} :
        /\ mesh' = m
        /\ events' = result.events
        /\ outcome' = result.outcome
        /\ stage' = ApplyEvents(stage, result.events)
        /\ usd_mesh_data' =
             IF Len(Ops(result.events, "ReadMesh")) = 3
             THEN get_geometry_data(m, USDMeshData) ELSE USDMeshData
        /\ last' = [found_written |-> frame_has_been_written_,
                    assign_started |-> result.assign_started,
                    assign_completed |-> result.assign_completed]
        /\ assign_started' = assign_started + (IF result.assign_started THEN 1 ELSE 0)
        /\ assign_completed' = assign_completed + (IF result.assign_completed THEN 1 ELSE 0)
        /\ double_sided_writes' =
             double_sided_writes + Len(Ops(result.events, "DoubleSided"))
        /\ frame_has_been_written_' = written_after(frame_has_been_written_, result)
  /\ calls' = calls + 1
  /\ UNCHANGED <<object, mesh_eval, temporary>>

(* get_export_mesh: the object's evaluated mesh, or none; a writer that      *)
(* hands out temporary copies sets needsfree.                               *)
get_export_mesh(object_eval_mesh) == {NULL, object_eval_mesh}

Export ==
  \E m \in get_export_mesh(mesh_eval) :
    \E fault \in FaultPoints(object, m, frame_has_been_written_, calls + 1) :
      Write(m, fault)

NoCallYet ==
  /\ frame_has_been_written_ = FALSE
  /\ calls = 0
  /\ mesh = NULL
  /\ usd_mesh_data = USDMeshData
  /\ events = <<>>
  /\ outcome = "none"
  /\ stage = NoStage
  /\ last = NoCall
  /\ assign_started = 0
  /\ assign_completed = 0
  /\ double_sided_writes = 0

ObjectsOf(totcol) ==
  {[totcol |-> totcol, mat |-> mat] : mat \in [1..totcol -> Materials \cup {nullptr}]}

(* A session: an object of up to MaxSessionCol slots whose mesh has one      *)
(* triangle per slot, with or without a creased edge.                        *)
SessionMesh(totcol, creases) ==
  MakeMesh(3, [i \in 1..Max(totcol, 1) |-> [totloop |-> 3, mat_nr |-> i - 1]],
           creases, totcol)

Init ==
  /\ object \in UNION {ObjectsOf(totcol) : totcol \in 0..MaxSessionCol}
  /\ mesh_eval \in {SessionMesh(object.totcol, c) : c \in {<<>>, <<CREASE_SHARP>>}}
  /\ temporary \in BOOLEAN
  /\ NoCallYet

Next == Export

Spec == Init /\ [][Next]_vars

(* The first export call alone, on every object of up to MaxCol slots and    *)
(* every distribution of up to MaxPoly triangles over its slots.             *)
InitMat ==
  /\ object \in UNION {ObjectsOf(totcol) : totcol \in 0..MaxCol}
  /\ IsMeshOf(mesh_eval, 3, object.totcol, MaxPoly, 0)
  /\ temporary = FALSE
  /\ NoCallYet

FirstExport == calls = 0 /\ Export

SpecMat == InitMat /\ [][FirstExport]_vars

-----------------------------------------------------------------------------
(* Geometry extraction alone, on every source mesh within the bounds. *)

InitGeom ==
  /\ \E nv \in 0..MaxVert, totcol \in 0..MaxCol :
       IsMeshOf(mesh_eval, nv, totcol, MaxPoly, MaxEdge)
  /\ object = [totcol |-> mesh_eval.totcol, mat |-> [i \in 1..mesh_eval.totcol |-> nullptr]]
  /\ temporary = FALSE
  /\ NoCallYet

GetGeometryData ==
  /\ mesh = NULL
  /\ mesh' = mesh_eval
  /\ usd_mesh_data' = get_geometry_data(mesh_eval, USDMeshData)
  /\ outcome' = "extracted"
  /\ UNCHANGED <<object, mesh_eval, temporary, frame_has_been_written_, calls, events,
                 stage, last, assign_started, assign_completed, double_sided_writes>>

SpecGeom == InitGeom /\ [][GetGeometryData]_vars

-----------------------------------------------------------------------------
(* Properties of geometry extraction, checked under SpecGeom. *)

Extracted == outcome = "extracted"

AllCounts(seq, n) == \A i \in DOMAIN seq : seq[i] = n

(* The polygons of slot k, in ascending polygon order. *)
PolysOfSlot(m, k) ==
  SelectSeq([p \in 1..m.totpoly |-> p - 1], LAMBDA p : m.mpoly[p + 1].mat_nr = k)

FaceGroupsPartition(m, fg) ==
  /\ DOMAIN fg = {m.mpoly[p].mat_nr : p \in 1..m.totpoly}
  /\ \A k \in DOMAIN fg : fg[k] = PolysOfSlot(m, k)
  /\ \A p \in 0..(m.totpoly - 1) :
       Cardinality({<<k, i>> \in UNION {{k} \X DOMAIN fg[k] : k \in DOMAIN fg} :
                      fg[k][i] = p}) = 1

(* C5, as claimed: after geometry extraction face_groups is non-empty if    *)
(* and only if the source mesh has more than one material slot, and with    *)
(* more than one slot every polygon index appears exactly once, under its   *)
(* polygon's slot, in ascending order.                                      *)
C5_Claim ==
  Extracted =>
    /\ (DOMAIN usd_mesh_data.face_groups # {}) <=> (mesh.totcol > 1)
    /\ mesh.totcol > 1 => FaceGroupsPartition(mesh, usd_mesh_data.face_groups)

(* C5, amended: face_groups is non-empty if and only if the source mesh has *)
(* more than one material slot and at least one polygon; with 0 or 1 slots  *)
(* it is empty whatever the polygon count, and with more than one slot      *)
(* every polygon index 0..totpoly-1 appears exactly once, under the key of  *)
(* its polygon's material slot, in ascending polygon order.                 *)
C5_FaceGroups ==
  Extracted =>
    /\ (DOMAIN usd_mesh_data.face_groups # {}) <=> (mesh.totcol > 1 /\ mesh.totpoly > 0)
    /\ mesh.totcol > 1 => FaceGroupsPartition(mesh, usd_mesh_data.face_groups)

C5_Witness ==
  /\ Extracted
  /\ mesh.totcol > 1
  /\ mesh.totpoly = 2
  /\ \E k \in DOMAIN usd_mesh_data.face_groups : usd_mesh_data.face_groups[k] = <<0, 1>>

(* C6: for every source mesh the extracted data has one point per vertex,   *)
(* one face vertex count per polygon, face vertex counts that sum to the    *)
(* number of face indices, one sharpness per crease length, crease lengths  *)
(* that sum to the number of crease indices; the source mesh is unchanged.  *)
C6_Lengths ==
  Extracted =>
    /\ Len(usd_mesh_data.points) = mesh.totvert
    /\ Len(usd_mesh_data.face_vertex_counts) = mesh.totpoly
    /\ SumSeq(usd_mesh_data.face_vertex_counts) = Len(usd_mesh_data.face_indices)
    /\ Len(usd_mesh_data.crease_lengths) = Len(usd_mesh_data.crease_sharpnesses)
    /\ SumSeq(usd_mesh_data.crease_lengths) = Len(usd_mesh_data.crease_vertex_indices)
    /\ mesh = mesh_eval

C6_Witness ==
  /\ Extracted
  /\ usd_mesh_data.face_vertex_counts = <<3, 4>>
  /\ Len(usd_mesh_data.face_indices) = 7
  /\ Len(usd_mesh_data.crease_lengths) = 1
  /\ mesh.totedge = 2

(* C7: each edge of non-zero crease weight w gives, in edge order, one run  *)
(* of two vertices (v1 then v2); its sharpness is the infinite sentinel     *)
(* when w = 255 and w/255, strictly between 0 and 1, otherwise; an edge of  *)
(* weight 0 gives nothing, and runs are never merged.                       *)
Creased(m) == SelectSeq(m.medge, LAMBDA e : e.crease # 0)

C7_Creases ==
  Extracted =>
    LET creased == Creased(mesh)
        d == usd_mesh_data
    IN /\ Len(d.crease_lengths) = Len(creased)
       /\ Len(d.crease_sharpnesses) = Len(creased)
       /\ Len(d.crease_vertex_indices) = 2 * Len(creased)
       /\ \A r \in 1..Len(creased) :
            /\ d.crease_lengths[r] = 2
            /\ d.crease_vertex_indices[2 * r - 1] = creased[r].v1
            /\ d.crease_vertex_indices[2 * r] = creased[r].v2
            /\ IF creased[r].crease = 255
               THEN d.crease_sharpnesses[r] = SHARPNESS_INFINITE
               ELSE /\ d.crease_sharpnesses[r].num * 255
                         = creased[r].crease * d.crease_sharpnesses[r].den
                    /\ 0 < d.crease_sharpnesses[r].num
                    /\ d.crease_sharpnesses[r].num < d.crease_sharpnesses[r].den

C7_Witness ==
  /\ Extracted
  /\ mesh.totedge = 2
  /\ mesh.medge[1].crease = 255
  /\ mesh.medge[2].crease = 254
  /\ mesh.medge[1].v2 = mesh.medge[2].v1
  /\ Len(usd_mesh_data.crease_lengths) = 2

-----------------------------------------------------------------------------
(* Properties of one export session, checked under Spec. *)

Count(op) == Len(Ops(events, op))

Acquired == outcome \in {"returned", "threw"}

(* C1: a call that acquired a snapshot has released it exactly once when it *)
(* was temporary and never when it was not, whether write_mesh returned or  *)
(* raised at any point, and nothing touches the snapshot after the release. *)
C1_ReleasedOnce ==
  Acquired =>
    /\ Count("Free") = (IF temporary THEN 1 ELSE 0)
    /\ \A i \in DOMAIN events : events[i].op = "Free" => i = Len(events)

C1_Witness ==
  /\ outcome = "threw"
  /\ temporary
  /\ Count("ReadMesh") = 3
  /\ Count("Set") = 2
  /\ Count("Free") = 1

(* C2: a call whose snapshot acquisition returns NULL returns normally and  *)
(* leaves the stage as it was: nothing defined, set, bound or created, and  *)
(* nothing released.                                                        *)
C2_NullSkips ==
  [][(calls' = calls + 1 /\ mesh' = NULL) =>
       /\ outcome' = "skipped"
       /\ events' = <<>>
       /\ stage' = stage
       /\ double_sided_writes' = double_sided_writes
       /\ frame_has_been_written_' = frame_has_been_written_]_vars

C2_Witness ==
  /\ outcome = "skipped"
  /\ mesh = NULL
  /\ calls = 2
  /\ stage.defined
  /\ stage.samples # {}

NoMaterialEvents ==
  /\ Count("EnsureMaterial") = 0
  /\ Count("BindMesh") = 0
  /\ Count("DoubleSided") = 0
  /\ Count("CreateSubset") = 0
  /\ Count("BindSubset") = 0

WroteGeometryAt(timecode) ==
  \A attr \in {"points", "faceVertexCounts", "faceVertexIndices"} :
    \E i \in DOMAIN events :
      events[i].op = "Set" /\ events[i].attr = attr /\ events[i].time = timecode

(* C3, as claimed: material assignment runs at most once in a session, only *)
(* in a call that finds the flag false; the object is Written after its     *)
(* first successful write and stays so; every call made while Written       *)
(* writes the geometry at the current time code and nothing of materials.   *)
C3_Claim ==
  /\ assign_started <= 1
  /\ last.assign_started => ~last.found_written
  /\ outcome = "returned" => frame_has_been_written_
  /\ last.found_written => frame_has_been_written_
  /\ (calls > 0 /\ last.found_written) => (WroteGeometryAt(calls) /\ NoMaterialEvents)

(* C3, amended: material assignment runs only in a call that finds the flag *)
(* false and completes at most once in a session (a run that raises leaves  *)
(* the object NotWritten, and a later call runs it again); the object is    *)
(* Written after its first successful write and never returns to            *)
(* NotWritten; a call made while Written creates no material binding, no    *)
(* geometry subset and no double-sided flag, and writes the geometry        *)
(* attributes at the current time code when it acquires a snapshot and      *)
(* does not raise.                                                          *)
C3_AssignOnce ==
  /\ assign_completed <= 1
  /\ last.assign_started => ~last.found_written
  /\ outcome = "returned" => frame_has_been_written_
  /\ last.found_written => frame_has_been_written_
  /\ (calls > 0 /\ last.found_written) =>
       /\ NoMaterialEvents
       /\ ~last.assign_started
       /\ outcome = "returned" => WroteGeometryAt(calls)

C3_Witness ==
  /\ calls = 2
  /\ last.found_written
  /\ outcome = "returned"
  /\ WroteGeometryAt(2)
  /\ stage.binding # nullptr
  /\ Cardinality(stage.subsets) = 2
  /\ assign_completed = 1

(* C8, as claimed: over the session of one object, whatever its number of   *)
(* material slots, the double-sided flag is written exactly once.           *)
C8_Claim == frame_has_been_written_ => double_sided_writes = 1

(* C8, amended: the double-sided flag is never written for an object with   *)
(* no material slot; for an object with slots it is written exactly once by *)
(* a run of material assignment that completes, at most once by a run that  *)
(* raises, and never by a call that does not run material assignment; so    *)
(* over a session it is written at least as often as material assignment    *)
(* completed (at most once) and at most as often as it was started.         *)
C8_DoubleSidedWrites ==
  /\ object.totcol = 0 => double_sided_writes = 0
  /\ object.totcol > 0 =>
       /\ assign_completed <= double_sided_writes
       /\ double_sided_writes <= assign_started
  /\ assign_completed <= 1
  /\ Count("DoubleSided") <= 1
  /\ (object.totcol > 0 /\ last.assign_completed) => Count("DoubleSided") = 1
  /\ ~last.assign_started => Count("DoubleSided") = 0

C8_Witness ==
  /\ frame_has_been_written_
  /\ calls = 2
  /\ last.found_written
  /\ object.totcol > 0
  /\ double_sided_writes = 1
  /\ stage.double_sided # "unset"

-----------------------------------------------------------------------------
(* Properties of material assignment, checked under SpecMat. *)

MeshBound == Count("BindMesh") > 0

NonEmptySlots == {i \in 1..object.totcol : object.mat[i] # nullptr}

(* The material of the lowest-index non-empty slot. *)
FirstMaterial == object.mat[CHOOSE i \in NonEmptySlots : \A j \in NonEmptySlots : i <= j]

(* The face groups whose slot holds a material. *)
MaterialGroups ==
  {k \in DOMAIN usd_mesh_data.face_groups : (k + 1) \in NonEmptySlots}

(* C4, as claimed: a run of material assignment creates geometry subsets if *)
(* and only if a whole-mesh material was bound and the face-group mapping   *)
(* has at least two entries.                                                *)
C4_Claim ==
  last.assign_completed =>
    (Count("CreateSubset") >= 1
       <=> (MeshBound /\ Cardinality(DOMAIN usd_mesh_data.face_groups) >= 2))

(* C4, amended: a run of material assignment creates geometry subsets if    *)
(* and only if a whole-mesh material was bound, the face-group mapping has  *)
(* at least two entries, and at least one face group's slot holds a         *)
(* material.                                                                *)
C4_SubsetsIff ==
  last.assign_completed =>
    (Count("CreateSubset") >= 1
       <=> /\ MeshBound
           /\ Cardinality(DOMAIN usd_mesh_data.face_groups) >= 2
           /\ MaterialGroups # {})

C4_Witness ==
  /\ last.assign_completed
  /\ MeshBound
  /\ Cardinality(DOMAIN usd_mesh_data.face_groups) = 2
  /\ Count("CreateSubset") = 2

(* C9: material assignment on an object with slots binds the whole mesh to  *)
(* exactly one material, that of the lowest-index non-empty slot, and sets  *)
(* the double-sided flag to whether that material does not cull backfaces;  *)
(* with every slot empty it binds nothing and sets the flag true; with no   *)
(* slot it binds nothing and sets no flag.                                  *)
C9_WholeMeshBinding ==
  /\ \A i \in DOMAIN events :
       /\ events[i].op = "BindMesh" =>
            NonEmptySlots # {} /\ events[i].material = FirstMaterial
       /\ events[i].op = "DoubleSided" =>
            events[i].value = (IF NonEmptySlots # {}
                               THEN ~FirstMaterial.cull_backface ELSE TRUE)
  /\ Count("BindMesh") <= 1
  /\ last.assign_completed =>
       IF object.totcol = 0
       THEN NoMaterialEvents /\ stage.binding = nullptr /\ stage.double_sided = "unset"
       ELSE IF NonEmptySlots = {}
       THEN /\ Count("BindMesh") = 0
            /\ stage.binding = nullptr
            /\ Count("DoubleSided") = 1
            /\ stage.double_sided = "true"
       ELSE /\ Count("BindMesh") = 1
            /\ stage.binding = FirstMaterial
            /\ Count("DoubleSided") = 1
            /\ stage.double_sided
                 = (IF FirstMaterial.cull_backface THEN "false" ELSE "true")

C9_Witness ==
  /\ last.assign_completed
  /\ object.totcol = 3
  /\ object.mat[1] = nullptr
  /\ object.mat[2] # nullptr
  /\ object.mat[2].cull_backface
  /\ mesh.totpoly = 2
  /\ \A p \in 1..mesh.totpoly : mesh.mpoly[p].mat_nr # 1
  /\ stage.binding = object.mat[2]
  /\ stage.double_sided = "false"

(* The k-th smallest element of a set of numbers. *)
Nth(S, n) == CHOOSE k \in S : Cardinality({j \in S : j < k}) = n - 1

(* C10: when material assignment reaches the subset step, it creates one    *)
(* subset per face group whose slot holds a material, in ascending slot     *)
(* order, each with exactly that group's polygon indices and bound to that  *)
(* slot's material; a face group whose slot is empty gets no subset and no  *)
(* binding, and the whole-mesh binding is kept.                             *)
C10_Subsets ==
  (last.assign_completed /\ MeshBound
     /\ Cardinality(DOMAIN usd_mesh_data.face_groups) >= 2) =>
    LET created == Ops(events, "CreateSubset")
        bound == Ops(events, "BindSubset")
    IN /\ Len(created) = Cardinality(MaterialGroups)
       /\ Len(bound) = Cardinality(MaterialGroups)
       /\ \A n \in 1..Len(created) :
            LET k == Nth(MaterialGroups, n)
            IN /\ created[n].indices = PolysOfSlot(mesh, k)
               /\ created[n].name = object.mat[k + 1].id
               /\ bound[n].name = created[n].name
               /\ bound[n].material = object.mat[k + 1]
       /\ \A i \in DOMAIN events :
            events[i].op = "CreateSubset" =>
              /\ i < Len(events)
              /\ events[i + 1].op = "BindSubset"
              /\ events[i + 1].name = events[i].name
       /\ Count("BindMesh") = 1
       /\ stage.binding = FirstMaterial

C10_Witness ==
  /\ last.assign_completed
  /\ MeshBound
  /\ Cardinality(DOMAIN usd_mesh_data.face_groups) = 2
  /\ Cardinality(MaterialGroups) = 1
  /\ Count("CreateSubset") = 1
  /\ stage.binding # nullptr

====
